---------------------------- MODULE Spec2Model ----------------------------
(***************************************************************************)
(* Model of the moski_fly game: the frame scheduler (useGameLoop), the     *)
(* session/score controller (Canvas), the statistics collaborator          *)
(* (StatsManager) and the leaderboard collaborator (LeaderboardManager).   *)
(*                                                                         *)
(* React is modelled by three layers of one component:                     *)
(*   - the state variables with every queued setState applied in order     *)
(*     (gameState, pipeScore, coinScore, coinCombo, ...);                  *)
(*   - `rendered`: the values seen by the last committed render, and the   *)
(*     closures that render memoised with useCallback (updateGameFn);      *)
(*   - what the passive effects installed: callbackRef, keyHandler.        *)
(* setState calls made in a frame callback are rendered later (Render) and *)
(* their effects later still (FlushEffects); setState calls made in a      *)
(* discrete input event are rendered, and their effects flushed, before    *)
(* the event returns.                                                      *)
(*                                                                         *)
(* Physics.ts is not part of the available sources: the physics operators  *)
(* are modelled from the specification on a small integer grid.            *)
(***************************************************************************)
EXTENDS Integers, Sequences, FiniteSets, TLC

-----------------------------------------------------------------------------
(* Bounds of the model *)

\* number of 16 ms display-frame slots the clock may advance
MaxFrames == 5

\* timestamp gaps between two display frames (ms): every second refresh while the
\* game is on screen; 48 and 1000 are stalls seen by the scheduler on its own
Gaps == {32}
StallGaps == {16, 32, 48, 1000}

\* leaderboard submissions awaiting the remote write when the collaborator is
\* exercised on its own, and the arguments it is called with
MaxInFlight == 2

\* calls of the statistics collaborator when it is exercised on its own, and the
\* results it is called with
MaxSaves == 2
PipeArgs == {0, 11}
CoinArgs == {0, 9}
DiamondArgs == {0, 1}
ComboArgs == {0, 2}
Scores == {-1, 0, 1, 2, 200, 201}
PseudoLens == {0, 1, 15, 16}

\* the totals of consecutive runs handed to the leaderboard
RaceScores == {1, 2, 3}

\* a running game met at any geometry: the gaps between its display frames, the
\* actor's height and velocity, its one obstacle's position
GeoGaps == {16, 32}
ActorYs == 1..6
ActorVelocities == {-2, 0, 2, 3}
PipeXs == 0..6

\* a running game about to end: the actor's height, the obstacles passed so far and
\* the total of the one earlier game (0: no earlier game)
GroundY == 6

\* frames left to a game that starts anywhere on the playfield
FallFrames == 4
FallYs == {1, 4, 6}
FallVelocities == {-2, 3}
FallPipeXs == {2, 5}
RunScores == {0, 9, 10, 19, 20}
PrevTotals == {0, 10, 20}

\* the same with two pickups on the playfield
CoinActorYs == {3, 4}
CoinXs == {1, 2, 3, 4, 6}
CoinYs == {4, 5, 6}

-----------------------------------------------------------------------------
(* Program constants *)

MaxDelta == 32
FrameMs == 16
AchievementThreshold == 20
BannerThreshold == 10

\* canvas and configuration on the model's grid
CanvasW == 6
CanvasH == 10
GroundHeight == 1
PlayerX == 1
PlayerSize == 2
HitRadius == 1
CoinRadius == 1
Gravity == 1
FlapStrength == -2
TerminalVelocity == 3
PipeSpeed == 1
PipeGap == 6
PipeWidth == 1
PipeSpacing == 3
ScoreOffset == 0
CoinNear == 1
GapYs == {4, 5}
NormalValue == 1
RareValue == 3

\* savePseudo stores pseudo.trim().slice(0, 15) of a non-empty name
StoredPseudoLen == 3
MaxPseudoLen == 15
MaxScore == 200

Null == [null |-> TRUE]

Min(a, b) == IF a < b THEN a ELSE b
Max(a, b) == IF a > b THEN a ELSE b

-----------------------------------------------------------------------------
(* Physics step (Physics.ts), modelled from the specification *)

\* elapsed milliseconds normalised to the canonical frame duration
TimeScale(deltaTime) == deltaTime \div FrameMs

createPlayer(w, h) ==
    [x |-> PlayerX, y |-> (h * 2) \div 5, velocity |-> 0]

applyGravity(p, deltaTime) ==
    LET dt == TimeScale(deltaTime)
        v  == Min(p.velocity + Gravity * dt, TerminalVelocity)
    IN  [p EXCEPT !.velocity = v, !.y = p.y + v * dt]

applyFlap(p) == [p EXCEPT !.velocity = FlapStrength]

\* updatePipes appending an obstacle in every tick, whatever the spacing
updatePipesEveryTick(ps, w, deltaTime, gapY) ==
    LET dt      == TimeScale(deltaTime)
        shifted == [i \in 1..Len(ps) |-> [ps[i] EXCEPT !.x = ps[i].x - PipeSpeed * dt]]
        OnScreen(q) == q.x > -PipeWidth
    IN  Append(SelectSeq(shifted, OnScreen), [x |-> w, gapY |-> gapY, passed |-> FALSE])

\* shift, drop the obstacles past the left edge, then append at the right edge
updatePipes(ps, w, deltaTime, gapY) ==
    LET dt      == TimeScale(deltaTime)
        shifted == [i \in 1..Len(ps) |-> [ps[i] EXCEPT !.x = ps[i].x - PipeSpeed * dt]]
        OnScreen(q) == q.x > -PipeWidth
        kept    == SelectSeq(shifted, OnScreen)
    IN  IF kept = <<>> \/ kept[Len(kept)].x < w - PipeSpacing
        THEN Append(kept, [x |-> w, gapY |-> gapY, passed |-> FALSE])
        ELSE kept

PlayerCx(p) == p.x + PlayerSize \div 2
PlayerCy(p) == p.y + PlayerSize \div 2

\* the obstacle test with every comparison strict
HitsPipeStrict(p, q) ==
    /\ PlayerCx(p) + HitRadius > q.x
    /\ PlayerCx(p) - HitRadius < q.x + PipeWidth
    /\ \/ PlayerCy(p) - HitRadius < q.gapY - PipeGap \div 2
       \/ PlayerCy(p) + HitRadius > q.gapY + PipeGap \div 2

HitsPipe(p, q) ==
    /\ PlayerCx(p) + HitRadius >= q.x
    /\ PlayerCx(p) - HitRadius <= q.x + PipeWidth
    /\ \/ PlayerCy(p) - HitRadius <= q.gapY - PipeGap \div 2
       \/ PlayerCy(p) + HitRadius >= q.gapY + PipeGap \div 2

checkCollision(p, ps, h) ==
    \/ PlayerCy(p) + HitRadius >= h - GroundHeight
    \/ PlayerCy(p) - HitRadius <= 0
    \/ \E i \in 1..Len(ps) : HitsPipe(p, ps[i])

JustPassed(p, q) == ~q.passed /\ PlayerCx(p) > q.x + PipeWidth + ScoreOffset

checkScore(p, ps) ==
    [pipes  |-> [i \in 1..Len(ps) |->
                    IF JustPassed(p, ps[i]) THEN [ps[i] EXCEPT !.passed = TRUE] ELSE ps[i]],
     scored |-> \E i \in 1..Len(ps) : JustPassed(p, ps[i])]

createCoinInGap(x, gapY, rare) ==
    [x |-> x, y |-> gapY, collected |-> FALSE,
     type  |-> IF rare THEN "rare" ELSE "normal",
     value |-> IF rare THEN RareValue ELSE NormalValue]

updateCoins(cs, deltaTime) ==
    LET dt      == TimeScale(deltaTime)
        shifted == [i \in 1..Len(cs) |-> [cs[i] EXCEPT !.x = cs[i].x - PipeSpeed * dt]]
        Live(c) == ~c.collected /\ c.x > -CoinRadius
    IN  SelectSeq(shifted, Live)

InReach(p, c) ==
    LET dx == c.x - PlayerCx(p)
        dy == c.y - PlayerCy(p)
        r  == HitRadius + CoinRadius
    IN  ~c.collected /\ dx * dx + dy * dy <= r * r

RECURSIVE SumValues(_)
SumValues(cs) == IF cs = <<>> THEN 0 ELSE cs[1].value + SumValues(Tail(cs))

checkCoinCollection(p, cs) ==
    LET Hit(c)  == InReach(p, c)
        IsRare(c) == c.type = "rare"
        got     == SelectSeq(cs, Hit)
    IN  [coins          |-> [i \in 1..Len(cs) |->
                               IF InReach(p, cs[i]) THEN [cs[i] EXCEPT !.collected = TRUE]
                               ELSE cs[i]],
         collected      |-> Len(got),
         totalValue     |-> SumValues(got),
         collectedCoins |-> got,
         rares          |-> Len(SelectSeq(got, IsRare))]

-----------------------------------------------------------------------------
(* Statistics collaborator (StatsManager) *)

DEFAULT_STATS ==
    [totalGames |-> 0, totalPipeScore |-> 0, totalCoinScore |-> 0, totalDiamonds |-> 0,
     bestTotal |-> 0, bestPipes |-> 0, bestCoins |-> 0, bestCombo |-> 0,
     achievement20 |-> FALSE]

\* localStorage.getItem failing is caught and yields the defaults
loadStats(stored, ok) == IF ok THEN stored ELSE DEFAULT_STATS

\* saveGameResult keeping the last total as the best one
saveGameResultLastTotal(stats, pipe, coin, diamonds, combo) ==
    LET totalScore == pipe + coin
    IN  [totalGames     |-> stats.totalGames + 1,
         totalPipeScore |-> stats.totalPipeScore + pipe,
         totalCoinScore |-> stats.totalCoinScore + coin,
         totalDiamonds  |-> stats.totalDiamonds + diamonds,
         bestTotal      |-> totalScore,
         bestPipes      |-> Max(stats.bestPipes, pipe),
         bestCoins      |-> Max(stats.bestCoins, coin),
         bestCombo      |-> Max(stats.bestCombo, combo),
         achievement20  |-> stats.achievement20 \/ totalScore >= AchievementThreshold]

\* the record saveGameResult computes from the loaded statistics
saveGameResult(stats, pipe, coin, diamonds, combo) ==
    LET totalScore == pipe + coin
    IN  [totalGames     |-> stats.totalGames + 1,
         totalPipeScore |-> stats.totalPipeScore + pipe,
         totalCoinScore |-> stats.totalCoinScore + coin,
         totalDiamonds  |-> stats.totalDiamonds + diamonds,
         bestTotal      |-> Max(stats.bestTotal, totalScore),
         bestPipes      |-> Max(stats.bestPipes, pipe),
         bestCoins      |-> Max(stats.bestCoins, coin),
         bestCombo      |-> Max(stats.bestCombo, combo),
         achievement20  |-> stats.achievement20 \/ totalScore >= AchievementThreshold]

\* GameOverlay: isGameOver && totalScore >= 10 && stats && stats.achievement20
justUnlocked20(gs, total, st) ==
    gs = "GAME_OVER" /\ total >= BannerThreshold /\ st.achievement20

\* resetStats: the record it returns
resetStats == DEFAULT_STATS

-----------------------------------------------------------------------------
(* State *)

VARIABLES
    \* browser: display-frame clock and the outstanding requestAnimationFrame ids
    now, rafQueue, nextFrameId,
    \* useGameLoop: refs, the isRunning prop and its pending effect
    frameIdRef, lastTimeRef, callbackRef, isRunning, schedEffectPending, mounted,
    \* the elapsed time handed to the last tick and the ticks since the last (re)start
    lastDelta, ticksSinceStart,
    \* Canvas: React state with every queued update applied
    gameState, pipeScore, coinScore, coinCombo, highScore, stats, pseudo,
    \* Canvas: last committed render, memoised updateGame closure, pending effects
    rendered, updateGameFn, effectsPending, keyHandler,
    \* Canvas: refs
    playerRef, pipesRef, coinsRef, diamondsCollectedRef, maxComboRef, animTimeRef,
    \* collaborators: localStorage and the calls received
    storedStats, storedPseudo, saveCalls, submitCalls, lastSaved,
    \* the saveGameResult calls since the last resetStats, with what each returned
    saveLog,
    \* Canvas: the modal flags (statistics, leaderboard, update note)
    showStats, showLeaderboard, showUpdateNote,
    \* LeaderboardManager: submissions awaiting setDoc, the stored best-submitted score
    \* and what the last submitScore call that returned has returned
    inFlight, bestSubmitted, submitReturn,
    \* Firestore: the score in the leaderboard document of the player's pseudo (0: none)
    remoteScore,
    \* Canvas: the sound switch; SoundManager: the background music object, and
    \* whether the browser hands out an AudioContext
    soundEnabled, bgMusic, audioAvailable,
    \* an exception left the tick callback
    crashed,
    \* the input kind and the session state of the entry into PLAYING from START
    firstEntry

schedVars == <<now, rafQueue, nextFrameId, frameIdRef, lastTimeRef, isRunning,
               schedEffectPending, mounted, lastDelta, ticksSinceStart>>
stateVars == <<gameState, pipeScore, coinScore, coinCombo, highScore, stats, pseudo>>
renderVars == <<rendered, updateGameFn, effectsPending, keyHandler, callbackRef>>
refVars == <<playerRef, pipesRef, coinsRef, diamondsCollectedRef, maxComboRef, animTimeRef>>
collabVars == <<storedStats, storedPseudo, saveCalls, submitCalls, lastSaved, saveLog>>
modalVars == <<showStats, showLeaderboard, showUpdateNote>>
lbVars == <<inFlight, bestSubmitted, submitReturn, remoteScore>>
soundVars == <<soundEnabled, bgMusic, audioAvailable>>
vars == <<schedVars, stateVars, renderVars, refVars, collabVars, modalVars, lbVars,
          soundVars, firstEntry, crashed>>

\* BackgroundMusic: isPlaying, intervalId (is a timer id held), and the beat timers
\* set and not cleared
Silent == [isPlaying |-> FALSE, intervalId |-> FALSE, timers |-> 0]

\* BackgroundMusic.start: a no-op while playing; when no AudioContext can be had the
\* exception is swallowed after isPlaying was set
BgStart(m, audio) ==
    IF m.isPlaying THEN m
    ELSE IF audio
    THEN [isPlaying |-> TRUE, intervalId |-> TRUE, timers |-> m.timers + 1]
    ELSE [m EXCEPT !.isPlaying = TRUE]

\* BackgroundMusic.stop: clears the timer whose id is held
BgStop(m) ==
    [isPlaying |-> FALSE, intervalId |-> FALSE,
     timers |-> IF m.intervalId THEN m.timers - 1 ELSE m.timers]

\* the values a render of Canvas reads
Snapshot(gs, ps, cs, cc, pn) ==
    [gameState |-> gs, pipeScore |-> ps, coinScore |-> cs, coinCombo |-> cc, pseudo |-> pn]

\* updateGame closes over coinCombo and over gameOver, which closes over the scores
Closure(cc, ps, cs) == [coinCombo |-> cc, pipeScore |-> ps, coinScore |-> cs]

\* useCallback(updateGame, [config, gameOver]); gameOver has deps [pipeScore, coinScore, ...]
MemoUpdateGame(old, prev, snap) ==
    IF snap.pipeScore # prev.pipeScore \/ snap.coinScore # prev.coinScore
    THEN Closure(snap.coinCombo, snap.pipeScore, snap.coinScore)
    ELSE old

\* onUpdate always handing the idle callback to the scheduler
OnUpdateIdle(snap, fn) == [kind |-> "idleUpdate", fn |-> Closure(0, 0, 0)]

\* onUpdate: gameState === 'PLAYING' ? updateGame : idleUpdate
OnUpdate(snap, fn) ==
    IF snap.gameState = "PLAYING"
    THEN [kind |-> "updateGame", fn |-> fn]
    ELSE [kind |-> "idleUpdate", fn |-> Closure(0, 0, 0)]

\* the keydown listener closes over handleFlap (gameState) and pseudo
KeyHandlerOf(snap) == [gameState |-> snap.gameState, pseudo |-> snap.pseudo]

NoEntry == [kind |-> "none"]

NoReturn == [kind |-> "none"]

\* the state once Canvas is mounted and its mount effect has run; note tells whether
\* the update note is still to be shown
Mounted(note, audio) ==
    /\ now = 0
    /\ rafQueue = {1}
    /\ nextFrameId = 2
    /\ frameIdRef = 1
    /\ lastTimeRef = 0
    /\ isRunning = TRUE
    /\ schedEffectPending = FALSE
    /\ mounted = TRUE
    /\ lastDelta = -1
    /\ ticksSinceStart = 0
    /\ gameState = "START"
    /\ pipeScore = 0
    /\ coinScore = 0
    /\ coinCombo = 0
    /\ highScore = 0
    /\ stats = DEFAULT_STATS
    /\ pseudo \in BOOLEAN
    /\ rendered = Snapshot("START", 0, 0, 0, pseudo)
    /\ updateGameFn = Closure(0, 0, 0)
    /\ effectsPending = FALSE
    /\ keyHandler = KeyHandlerOf(rendered)
    /\ callbackRef = OnUpdate(rendered, updateGameFn)
    /\ playerRef = Null
    /\ pipesRef = <<>>
    /\ coinsRef = <<>>
    /\ diamondsCollectedRef = 0
    /\ maxComboRef = 0
    /\ animTimeRef = 0
    /\ storedStats = DEFAULT_STATS
    /\ storedPseudo = pseudo
    /\ saveCalls = 0
    /\ submitCalls = 0
    /\ lastSaved = <<>>
    /\ saveLog = <<>>
    /\ showStats = FALSE
    /\ showLeaderboard = FALSE
    /\ showUpdateNote = note
    /\ inFlight = <<>>
    /\ bestSubmitted = 0
    /\ submitReturn = NoReturn
    /\ remoteScore = 0
    /\ soundEnabled = TRUE
    /\ bgMusic = Silent
    /\ audioAvailable = audio
    /\ crashed = FALSE
    /\ firstEntry = NoEntry

\* a player who has already dismissed the update note
Init == Mounted(FALSE, TRUE)

\* any player: the update note is shown unless this version's note was dismissed
UiInit == \E note \in BOOLEAN : Mounted(note, TRUE)

\* one saveGameResult call as the log keeps it
LogEntry(args, ok, returned) ==
    [kind |-> "save", pipe |-> args[1], coin |-> args[2], diamonds |-> args[3],
     combo |-> args[4], ok |-> ok, returned |-> returned]

\* a resetStats call whose write failed: the old record stays in storage
FailedReset == [kind |-> "reset", ok |-> FALSE]

\* saveGameResult starting from the default record instead of the persisted one
StatsAfterFromDefaults(stored, args, ok) ==
    saveGameResult(DEFAULT_STATS, args[1], args[2], args[3], args[4])

\* saveGameResult(args): the record returned
StatsAfter(stored, args, ok) ==
    saveGameResult(loadStats(stored, ok), args[1], args[2], args[3], args[4])

\* saveGameResult(args): the write to localStorage, caught when it fails
SaveStep(args, ok) ==
    /\ storedStats' = IF ok THEN StatsAfter(storedStats, args, ok) ELSE storedStats
    /\ saveLog' = Append(saveLog, LogEntry(args, ok, StatsAfter(storedStats, args, ok)))

\* resetStats(): the write to localStorage, caught when it fails; the failure leaves
\* the old record behind unless the storage already held the fresh one
ResetStep(ok) ==
    /\ storedStats' = IF ok THEN resetStats ELSE storedStats
    /\ saveLog' = IF ok \/ storedStats = resetStats THEN <<>>
                  ELSE IF saveLog # <<>> /\ saveLog[Len(saveLog)] = FailedReset THEN saveLog
                  ELSE Append(saveLog, FailedReset)

-----------------------------------------------------------------------------
(* Frame scheduler (useGameLoop) *)

\* loop without the cap on the elapsed time
LoopDeltaNoCap(timestamp, last) ==
    LET base == IF last = 0 THEN timestamp ELSE last
    IN  timestamp - base

\* loop: the elapsed time handed to the callback
LoopDelta(timestamp, last) ==
    LET base == IF last = 0 THEN timestamp ELSE last
    IN  Min(timestamp - base, MaxDelta)

\* the effect starting the loop without resetting the baseline
ResumeBaselineKept(last) == last

\* the effect on [isRunning, loop] resets the baseline when it starts the loop
ResumeBaseline(last) == 0

\* an effect cleanup that leaves the requested frame in place
CancelFrameKept(queue, id) == queue

\* cancelAnimationFrame(frameIdRef.current), guarded by `if (frameIdRef.current)`
CancelFrame(queue, id) == IF id # 0 THEN queue \ {id} ELSE queue

\* the bookkeeping of one run of loop(timestamp) around the callback
LoopStep(id, timestamp) ==
    /\ id \in rafQueue
    /\ nextFrameId <= MaxFrames
    /\ now' = timestamp
    /\ lastDelta' = LoopDelta(timestamp, lastTimeRef)
    /\ lastTimeRef' = timestamp
    /\ ticksSinceStart' = Min(ticksSinceStart + 1, 2)
    /\ UNCHANGED <<isRunning, schedEffectPending, mounted>>

\* frameIdRef.current = requestAnimationFrame(loop), reached when the callback returns
RequestNext(id) ==
    /\ frameIdRef' = nextFrameId
    /\ rafQueue' = (rafQueue \ {id}) \cup {nextFrameId}
    /\ nextFrameId' = nextFrameId + 1

\* the parent renders the hook with a new isRunning; its effect runs later
SetRunning(b) ==
    /\ mounted
    /\ ~schedEffectPending
    /\ b # isRunning
    /\ isRunning' = b
    /\ schedEffectPending' = TRUE
    /\ UNCHANGED <<now, rafQueue, nextFrameId, frameIdRef, lastTimeRef, lastDelta,
                   ticksSinceStart, mounted>>
    /\ UNCHANGED <<stateVars, renderVars, refVars, collabVars, modalVars, lbVars, crashed, firstEntry, soundVars>>

\* cleanup of the previous effect, then the effect body
SchedEffect ==
    /\ mounted
    /\ schedEffectPending
    /\ schedEffectPending' = FALSE
    /\ LET cleaned == CancelFrame(rafQueue, frameIdRef)
       IN  IF isRunning
           THEN /\ nextFrameId <= MaxFrames
                /\ lastTimeRef' = ResumeBaseline(lastTimeRef)
                /\ frameIdRef' = nextFrameId
                /\ rafQueue' = cleaned \cup {nextFrameId}
                /\ nextFrameId' = nextFrameId + 1
                /\ ticksSinceStart' = 0
           ELSE /\ rafQueue' = CancelFrame(cleaned, frameIdRef)
                /\ frameIdRef' = 0
                /\ UNCHANGED <<lastTimeRef, nextFrameId, ticksSinceStart>>
    /\ UNCHANGED <<now, isRunning, mounted, lastDelta>>
    /\ UNCHANGED <<stateVars, renderVars, refVars, collabVars, modalVars, lbVars, crashed, firstEntry, soundVars>>

\* the component is removed; the effect's cleanup runs later
Unmount ==
    /\ mounted
    /\ ~schedEffectPending
    /\ mounted' = FALSE
    /\ schedEffectPending' = TRUE
    /\ UNCHANGED <<now, rafQueue, nextFrameId, frameIdRef, lastTimeRef, isRunning,
                   lastDelta, ticksSinceStart>>
    /\ UNCHANGED <<stateVars, renderVars, refVars, collabVars, modalVars, lbVars, crashed, firstEntry, soundVars>>

UnmountCleanup ==
    /\ ~mounted
    /\ schedEffectPending
    /\ schedEffectPending' = FALSE
    /\ rafQueue' = CancelFrame(rafQueue, frameIdRef)
    /\ UNCHANGED <<now, nextFrameId, frameIdRef, lastTimeRef, isRunning, mounted,
                   lastDelta, ticksSinceStart>>
    /\ UNCHANGED <<stateVars, renderVars, refVars, collabVars, modalVars, lbVars, crashed, firstEntry, soundVars>>

-----------------------------------------------------------------------------
(* Canvas: idle callback *)

\* Math.sin(time / 500) * 10 and Math.sin(time / 300) * 5 on the model's grid
IdleFloat(time) == <<0, 1, 0, -1>>[((time \div 32) % 4) + 1]
IdleVelocity(time) == <<0, 1, 0, -1>>[((time \div 16) % 4) + 1]

idleUpdate(p, time) ==
    LET q == IF p = Null THEN createPlayer(CanvasW, CanvasH) ELSE p
    IN  [q EXCEPT !.y = (CanvasH * 2) \div 5 + IdleFloat(time),
                  !.velocity = IdleVelocity(time)]

\* a display frame fires while the idle callback is registered
FrameIdle(id, gap) ==
    /\ callbackRef.kind = "idleUpdate"
    /\ LoopStep(id, now + gap)
    /\ RequestNext(id)
    /\ IF mounted
       THEN /\ animTimeRef' = animTimeRef + lastDelta'
            /\ playerRef' = idleUpdate(playerRef, animTimeRef')
       ELSE UNCHANGED <<animTimeRef, playerRef>>
    /\ UNCHANGED <<pipesRef, coinsRef, diamondsCollectedRef, maxComboRef>>
    /\ UNCHANGED <<stateVars, renderVars, collabVars, modalVars, lbVars, crashed, firstEntry, soundVars>>

-----------------------------------------------------------------------------
(* Canvas: session/score controller *)

\* resetGame forgetting the per-game max-combo ref
resetGameKeepsCombo(w, h) ==
    [player |-> createPlayer(w, h), pipes |-> <<>>, coins |-> <<>>,
     diamonds |-> 0, maxCombo |-> maxComboRef]

\* resetGame: the refs it assigns
resetGame(w, h) ==
    [player |-> createPlayer(w, h), pipes |-> <<>>, coins |-> <<>>,
     diamonds |-> 0, maxCombo |-> 0]

\* startGame: setGameState('PLAYING')
StartState(gs) == "PLAYING"

\* gameOver returning to the entry screen
CollisionStateToStart(gs) == "START"

\* gameOver: setGameState('GAME_OVER')
CollisionState(gs) == "GAME_OVER"

\* handleFlap: does this press start a game
FlapStarts(gs) == gs = "START" \/ gs = "GAME_OVER"

\* handleFlap applying the impulse on a restart as well
FlapAppliesOnRestart(gs, hasPlayer) ==
    gs = "START" \/ gs = "GAME_OVER" \/ (gs = "PLAYING" /\ hasPlayer)

\* handleFlap: does this press apply the impulse
FlapApplies(gs, hasPlayer) == gs = "START" \/ (gs = "PLAYING" /\ hasPlayer)

\* the session state a run starts from
Session ==
    [player |-> playerRef, pipes |-> pipesRef, coins |-> coinsRef,
     pipeScore |-> pipeScore, coinScore |-> coinScore, coinCombo |-> coinCombo,
     maxCombo |-> maxComboRef, diamonds |-> diamondsCollectedRef]

\* startGame from a discrete input event: resetGame, setGameState('PLAYING'),
\* then the render and its effects before the event returns
StartGame(kind, flap) ==
    LET r    == resetGame(CanvasW, CanvasH)
        snap == Snapshot(StartState(gameState), 0, 0, 0, pseudo)
        fn   == MemoUpdateGame(updateGameFn, rendered, snap)
    IN  /\ playerRef' = IF flap THEN applyFlap(r.player) ELSE r.player
        /\ pipesRef' = r.pipes
        /\ coinsRef' = r.coins
        /\ diamondsCollectedRef' = r.diamonds
        /\ maxComboRef' = r.maxCombo
        /\ pipeScore' = 0
        /\ coinScore' = 0
        /\ coinCombo' = 0
        /\ gameState' = StartState(gameState)
        /\ rendered' = snap
        /\ updateGameFn' = fn
        /\ callbackRef' = OnUpdate(snap, fn)
        /\ keyHandler' = KeyHandlerOf(snap)
        /\ effectsPending' = FALSE
        /\ saveCalls' = 0
        /\ submitCalls' = 0
        /\ lastSaved' = <<>>
        /\ firstEntry' = IF gameState = "START"
                         THEN [kind |-> kind, session |-> Session']
                         ELSE firstEntry
        /\ UNCHANGED <<animTimeRef, highScore, stats, pseudo>>
        /\ UNCHANGED <<storedStats, storedPseudo, saveLog, crashed>>
        /\ bgMusic' = IF soundEnabled THEN BgStart(bgMusic, audioAvailable) ELSE bgMusic
        /\ UNCHANGED <<soundEnabled, audioAvailable>>
        /\ UNCHANGED <<schedVars, modalVars, lbVars>>

\* keydown (Space / ArrowUp) through the listener installed by the last effect:
\* `if (!pseudo || showStats || showLeaderboard) return`; the modal flags change in
\* click events only, whose effects re-register the listener before the event returns
KeyDown ==
    /\ mounted
    /\ keyHandler.pseudo
    /\ ~showStats
    /\ ~showLeaderboard
    /\ IF FlapStarts(keyHandler.gameState)
       THEN StartGame("key", FlapApplies(keyHandler.gameState, TRUE))
       ELSE /\ FlapApplies(keyHandler.gameState, playerRef # Null)
            /\ playerRef' = applyFlap(playerRef)
            /\ UNCHANGED <<pipesRef, coinsRef, diamondsCollectedRef, maxComboRef, animTimeRef>>
            /\ UNCHANGED <<schedVars, stateVars, renderVars, collabVars, modalVars, lbVars, crashed,
                           firstEntry, soundVars>>

\* pointer press on the canvas: the overlay covers it unless the render was PLAYING
PointerDown ==
    /\ mounted
    /\ rendered.gameState = "PLAYING"
    /\ FlapApplies(rendered.gameState, playerRef # Null)
    /\ playerRef' = applyFlap(playerRef)
    /\ UNCHANGED <<pipesRef, coinsRef, diamondsCollectedRef, maxComboRef, animTimeRef>>
    /\ UNCHANGED <<schedVars, stateVars, renderVars, collabVars, modalVars, lbVars, crashed, firstEntry, soundVars>>

\* the update-note modal is rendered above everything while the entry screen is up
UpdateNoteShown == showUpdateNote /\ rendered.gameState = "START"

\* the overlay renders its menu (start, statistics and leaderboard buttons) when no
\* modal replaces it and the update note does not cover it
MenuShown ==
    /\ rendered.gameState # "PLAYING"
    /\ rendered.pseudo
    /\ ~showLeaderboard
    /\ ~showStats
    /\ ~UpdateNoteShown

\* START / PLAY AGAIN button of the overlay: onStart = startGame
StartButton ==
    /\ mounted
    /\ MenuShown
    /\ StartGame("button", FALSE)

\* a click handler that changes a modal flag: pending passive effects are flushed,
\* the flag is rendered and its effects run before the event returns
ClickFlush ==
    /\ effectsPending' = FALSE
    /\ callbackRef' = IF effectsPending THEN OnUpdate(rendered, updateGameFn) ELSE callbackRef
    /\ keyHandler' = IF effectsPending THEN KeyHandlerOf(rendered) ELSE keyHandler
    /\ UNCHANGED <<rendered, updateGameFn>>

\* the sound button, rendered unless the render was START: setSoundEnabled(newVal),
\* then bgMusic.start() if newVal and the gameState of the render is PLAYING,
\* bgMusic.stop() otherwise
ToggleSound ==
    /\ mounted
    /\ rendered.gameState # "START"
    /\ soundEnabled' = ~soundEnabled
    /\ bgMusic' = IF ~soundEnabled /\ rendered.gameState = "PLAYING"
                  THEN BgStart(bgMusic, audioAvailable)
                  ELSE BgStop(bgMusic)
    /\ ClickFlush
    /\ UNCHANGED audioAvailable
    /\ UNCHANGED <<schedVars, stateVars, refVars, collabVars, modalVars, lbVars, crashed,
                   firstEntry>>

\* onToggleStats: from the menu it opens the statistics modal, from the modal it closes it
ToggleStats ==
    /\ mounted
    /\ MenuShown \/ (showStats /\ rendered.gameState # "PLAYING" /\ rendered.pseudo
                        /\ ~showLeaderboard)
    /\ showStats' = ~showStats
    /\ ClickFlush
    /\ UNCHANGED <<showLeaderboard, showUpdateNote>>
    /\ UNCHANGED <<schedVars, stateVars, refVars, collabVars, lbVars, crashed, firstEntry, soundVars>>

\* onToggleLeaderboard: from the menu it opens the leaderboard, from the modal it closes it
ToggleLeaderboard ==
    /\ mounted
    /\ MenuShown \/ (showLeaderboard /\ rendered.gameState # "PLAYING" /\ rendered.pseudo)
    /\ showLeaderboard' = ~showLeaderboard
    /\ ClickFlush
    /\ UNCHANGED <<showStats, showUpdateNote>>
    /\ UNCHANGED <<schedVars, stateVars, refVars, collabVars, lbVars, crashed, firstEntry, soundVars>>

\* LET'S GO! button of the update note: setShowUpdateNote(false)
DismissUpdateNote ==
    /\ mounted
    /\ UpdateNoteShown
    /\ showUpdateNote' = FALSE
    /\ ClickFlush
    /\ UNCHANGED <<showStats, showLeaderboard>>
    /\ UNCHANGED <<schedVars, stateVars, refVars, collabVars, lbVars, crashed, firstEntry, soundVars>>

\* RESET button of the statistics modal: onResetStats
ResetStats(storageOk) ==
    /\ mounted
    /\ showStats /\ rendered.gameState # "PLAYING" /\ rendered.pseudo /\ ~showLeaderboard
    /\ ResetStep(storageOk)
    /\ stats' = resetStats
    /\ highScore' = 0
    /\ showStats' = FALSE
    /\ ClickFlush
    /\ UNCHANGED <<showLeaderboard, showUpdateNote>>
    /\ UNCHANGED <<gameState, pipeScore, coinScore, coinCombo, pseudo>>
    /\ UNCHANGED <<storedPseudo, saveCalls, submitCalls, lastSaved>>
    /\ UNCHANGED <<schedVars, refVars, lbVars, crashed, firstEntry, soundVars>>

\* saveGameResult called on its own
SaveCall(pipe, coin, diamonds, combo, storageOk) ==
    /\ Len(saveLog) < MaxSaves
    /\ SaveStep(<<pipe, coin, diamonds, combo>>, storageOk)
    /\ UNCHANGED <<storedPseudo, saveCalls, submitCalls, lastSaved>>
    /\ UNCHANGED <<schedVars, stateVars, renderVars, refVars, modalVars, lbVars, crashed,
                   firstEntry, soundVars>>

\* resetStats called on its own
ResetCall(storageOk) ==
    /\ Len(saveLog) < MaxSaves \/ storageOk
    /\ ResetStep(storageOk)
    /\ UNCHANGED <<storedPseudo, saveCalls, submitCalls, lastSaved>>
    /\ UNCHANGED <<schedVars, stateVars, renderVars, refVars, modalVars, lbVars, crashed,
                   firstEntry, soundVars>>

\* a render of Canvas commits the updates queued by frame callbacks
Render ==
    /\ mounted
    /\ rendered # Snapshot(gameState, pipeScore, coinScore, coinCombo, pseudo)
    /\ rendered' = Snapshot(gameState, pipeScore, coinScore, coinCombo, pseudo)
    /\ updateGameFn' = MemoUpdateGame(updateGameFn, rendered, rendered')
    /\ effectsPending' = TRUE
    /\ UNCHANGED <<keyHandler, callbackRef>>
    /\ UNCHANGED <<schedVars, stateVars, refVars, collabVars, modalVars, lbVars, crashed, firstEntry, soundVars>>

\* passive effects of the last render: callbackRef.current = onUpdate, keydown listener
FlushEffects ==
    /\ mounted
    /\ effectsPending
    /\ effectsPending' = FALSE
    /\ callbackRef' = OnUpdate(rendered, updateGameFn)
    /\ keyHandler' = KeyHandlerOf(rendered)
    /\ UNCHANGED <<rendered, updateGameFn>>
    /\ UNCHANGED <<schedVars, stateVars, refVars, collabVars, modalVars, lbVars, crashed, firstEntry, soundVars>>

\* onSetPseudo: savePseudo(p) writes localStorage, then setPseudo(p); when the write
\* throws nothing is changed
SetPseudo ==
    /\ mounted
    /\ ~rendered.pseudo
    /\ storedPseudo' = TRUE
    /\ pseudo' = TRUE
    /\ UNCHANGED <<gameState, pipeScore, coinScore, coinCombo, highScore, stats>>
    /\ UNCHANGED <<storedStats, saveCalls, submitCalls, lastSaved, saveLog>>
    /\ UNCHANGED <<schedVars, renderVars, refVars, modalVars, lbVars, crashed, firstEntry, soundVars>>

-----------------------------------------------------------------------------
(* Leaderboard collaborator (LeaderboardManager) *)

\* submitScore accepting a score equal to the best already submitted
SubmitChecksAllowEqual(uid, pseudoLen, score, best) ==
    /\ uid
    /\ ~(score < best)
    /\ ~(pseudoLen < 1 \/ pseudoLen > MaxPseudoLen)
    /\ ~(score < 0 \/ score > MaxScore)

\* submitScore: the checks made before the remote write
SubmitChecks(uid, pseudoLen, score, best) ==
    /\ uid
    /\ ~(score <= best)
    /\ ~(pseudoLen < 1 \/ pseudoLen > MaxPseudoLen)
    /\ ~(score < 0 \/ score > MaxScore)

\* what a submitScore call has returned, with the call it belongs to
Returned(call, value, failed) ==
    [kind |-> "returned", value |-> value, failed |-> failed, score |-> call.score,
     pseudoLen |-> call.pseudoLen, uid |-> call.uid, best |-> call.best]

\* submitScore up to its first await: getCurrentUid, the stored best (getItem may
\* throw into the catch), the validation, then setDoc is started
submitScore(pseudoLen, score, uid, storageOk) ==
    LET call == [score |-> score, pseudoLen |-> pseudoLen, uid |-> uid, best |-> bestSubmitted]
    IN  IF uid /\ ~storageOk
        THEN /\ submitReturn' = Returned(call, FALSE, "storage")
             /\ UNCHANGED <<inFlight, bestSubmitted, remoteScore>>
        ELSE IF SubmitChecks(uid, pseudoLen, score, bestSubmitted)
        THEN /\ inFlight' = Append(inFlight, call)
             /\ submitReturn' = NoReturn
             /\ UNCHANGED <<bestSubmitted, remoteScore>>
        ELSE /\ submitReturn' = Returned(call, FALSE, "none")
             /\ UNCHANGED <<inFlight, bestSubmitted, remoteScore>>

RemoveAt(q, i) == [j \in 1..(Len(q) - 1) |-> IF j < i THEN q[j] ELSE q[j + 1]]

\* the awaited setDoc of submission i settles: when it resolved, the document of
\* the pseudo submitted holds the score, the score is stored as best submitted
\* (setItem may throw into the catch) and true is returned
SubmitSettle(i, remoteOk, storageOk) ==
    /\ i \in 1..Len(inFlight)
    /\ inFlight' = RemoveAt(inFlight, i)
    /\ remoteScore' = IF remoteOk /\ inFlight[i].pseudoLen = StoredPseudoLen
                      THEN inFlight[i].score
                      ELSE remoteScore
    /\ IF remoteOk /\ storageOk
       THEN /\ bestSubmitted' = inFlight[i].score
            /\ submitReturn' = Returned(inFlight[i], TRUE, "none")
       ELSE /\ UNCHANGED bestSubmitted
            /\ submitReturn' = Returned(inFlight[i], FALSE,
                                        IF remoteOk THEN "storage" ELSE "remote")
    /\ UNCHANGED <<schedVars, stateVars, renderVars, refVars, collabVars, modalVars, crashed,
                   firstEntry, soundVars>>

\* submitScore called on its own
SubmitCall(pseudoLen, score, uid, storageOk) ==
    /\ Len(inFlight) < MaxInFlight
    /\ submitScore(pseudoLen, score, uid, storageOk)
    /\ UNCHANGED <<schedVars, stateVars, renderVars, refVars, collabVars, modalVars, crashed,
                   firstEntry, soundVars>>

-----------------------------------------------------------------------------
(* Canvas: simulation callback *)

Abs(n) == IF n < 0 THEN -n ELSE n

\* a coin is spawned in the gap of a pipe that just entered, unless one is nearby
SpawnCoin(cs, ps, w, spawn, rare) ==
    LET lastPipe == ps[Len(ps)]
    IN  IF /\ ps # <<>>
           /\ lastPipe.x >= w - PipeSpeed
           /\ spawn
           /\ ~\E i \in 1..Len(cs) : Abs(cs[i].x - lastPipe.x) < CoinNear
        THEN Append(cs, createCoinInGap(lastPipe.x, lastPipe.gapY, rare))
        ELSE cs

\* combo system: the new combo is computed from the coinCombo the callback closed over
NewCombo(captured, collected) == captured + collected
Multiplier(newCombo) == IF newCombo >= 3 THEN 2 ELSE 1

\* the pipe-score counting every tick, scoring event or not
ScoreAfterEveryTick(prev, scored) == prev + 1

\* if (scoreResult.scored) setPipeScore(prev => prev + 1)
ScoreAfter(prev, scored) == IF scored THEN prev + 1 ELSE prev

\* the max-combo ref overwritten by the latest combo
MaxComboAfterLatest(prev, newCombo) == newCombo

\* maxComboRef.current = Math.max(maxComboRef.current, newCombo)
MaxComboAfter(prev, newCombo) == Max(prev, newCombo)

\* the pickup set kept as it was before the collection check
CoinsAfterUnmarked(cs, result) == cs

\* coinsRef.current = coinResult.coins
CoinsAfter(cs, result) == result.coins

\* gameOver passes the scores its closure captured and the current refs
GameOverArgs(fn, diamonds, combo) == <<fn.pipeScore, fn.coinScore, diamonds, combo>>

\* a leaderboard submission started whatever the total
ShouldSubmitAnyTotal(hasPseudo, total) == hasPseudo

\* a leaderboard submission is started for a named player with a positive total
ShouldSubmit(hasPseudo, total) == hasPseudo /\ total > 0

\* a display frame fires while the simulation callback is registered; storageOk tells
\* whether localStorage is available to the calls made in this tick
FrameUpdate(id, gap, gapY, spawn, rare, storageOk) ==
    /\ callbackRef.kind = "updateGame"
    /\ LoopStep(id, now + gap)
    /\ IF playerRef = Null
       THEN \* if (!canvas || !ctx || !playerRef.current) return
            /\ RequestNext(id)
            /\ UNCHANGED <<stateVars, refVars, collabVars, lbVars, crashed, bgMusic>>
       ELSE
       LET fn       == callbackRef.fn
           dtime    == lastDelta'
           p1       == applyGravity(playerRef, dtime)
           ps1      == updatePipes(pipesRef, CanvasW, dtime, gapY)
           cs0      == SpawnCoin(coinsRef, ps1, CanvasW, spawn, rare)
           cs1      == updateCoins(cs0, dtime)
           cr       == checkCoinCollection(p1, cs1)
           got      == cr.collected > 0
           newCombo == NewCombo(fn.coinCombo, cr.collected)
           combo1   == IF got THEN MaxComboAfter(maxComboRef, newCombo) ELSE maxComboRef
           dia1     == diamondsCollectedRef + cr.rares
           sr       == checkScore(p1, ps1)
           args     == GameOverArgs(fn, dia1, combo1)
           updated  == StatsAfter(storedStats, args, storageOk)
       IN  /\ playerRef' = p1
           /\ coinsRef' = CoinsAfter(cs1, cr)
           /\ maxComboRef' = combo1
           /\ diamondsCollectedRef' = dia1
           /\ coinCombo' = IF got THEN newCombo ELSE coinCombo
           /\ coinScore' = IF got THEN coinScore + cr.totalValue * Multiplier(newCombo)
                           ELSE coinScore
           /\ IF checkCollision(p1, ps1, CanvasH)
              THEN \* gameOver(); return
                   /\ pipesRef' = ps1
                   /\ gameState' = CollisionState(gameState)
                   /\ stats' = updated
                   /\ highScore' = updated.bestTotal
                   /\ SaveStep(args, storageOk)
                   /\ saveCalls' = saveCalls + 1
                   /\ lastSaved' = args
                   /\ bgMusic' = BgStop(bgMusic)
                   /\ UNCHANGED pipeScore
                   /\ IF storageOk
                      THEN \* getPseudo() returns; submitScore is fire-and-forget
                           /\ IF ShouldSubmit(storedPseudo, args[1] + args[2])
                              THEN /\ submitCalls' = submitCalls + 1
                                   /\ \E uid \in BOOLEAN :
                                         submitScore(StoredPseudoLen, args[1] + args[2], uid, TRUE)
                              ELSE UNCHANGED <<submitCalls, lbVars>>
                           /\ RequestNext(id)
                           /\ UNCHANGED crashed
                      ELSE \* getPseudo() throws out of gameOver, updateGame and loop
                           /\ rafQueue' = rafQueue \ {id}
                           /\ crashed' = TRUE
                           /\ UNCHANGED <<submitCalls, frameIdRef, nextFrameId, lbVars>>
              ELSE /\ pipesRef' = sr.pipes
                   /\ pipeScore' = ScoreAfter(pipeScore, sr.scored)
                   /\ RequestNext(id)
                   /\ UNCHANGED <<gameState, stats, highScore, storedStats, saveCalls,
                                  submitCalls, lastSaved, saveLog, lbVars, crashed, bgMusic>>
           /\ UNCHANGED <<pseudo, animTimeRef, storedPseudo>>
    /\ UNCHANGED <<renderVars, modalVars, firstEntry, soundEnabled, audioAvailable>>

-----------------------------------------------------------------------------
(* Specifications *)

\* the game: Canvas drives one scheduler that always runs; frames, inputs, renders
Next ==
    \/ \E id \in rafQueue, gap \in Gaps : FrameIdle(id, gap)
    \/ \E id \in rafQueue, gap \in Gaps, gapY \in GapYs, spawn \in BOOLEAN, rare \in BOOLEAN,
          storageOk \in BOOLEAN :
          FrameUpdate(id, gap, gapY, spawn, rare, storageOk)
    \/ KeyDown
    \/ PointerDown
    \/ StartButton
    \/ Render
    \/ FlushEffects
    \/ SetPseudo

Spec == Init /\ [][Next]_vars

\* the game with the leaderboard's remote writes settling at any time
SubmitNext ==
    \/ Next
    \/ \E i \in 1..Len(inFlight), remoteOk \in BOOLEAN, storageOk \in BOOLEAN :
          SubmitSettle(i, remoteOk, storageOk)

SubmitSpec == Init /\ [][SubmitNext]_vars

\* the game with the buttons of the overlay's modals
UiNext ==
    \/ Next
    \/ ToggleStats
    \/ ToggleLeaderboard
    \/ DismissUpdateNote
    \/ \E storageOk \in BOOLEAN : ResetStats(storageOk)

UiSpec == UiInit /\ [][UiNext]_vars

\* the game with the sound button, in a browser with or without Web Audio
SoundInit == \E audio \in BOOLEAN : Mounted(FALSE, audio)

SoundNext ==
    \/ Next
    \/ ToggleSound

SoundSpec == SoundInit /\ [][SoundNext]_vars

\* the scheduler alone: its owner toggles isRunning and unmounts it
SchedNext ==
    \/ \E id \in rafQueue, gap \in StallGaps : FrameIdle(id, gap)
    \/ \E b \in BOOLEAN : SetRunning(b)
    \/ SchedEffect
    \/ Unmount
    \/ UnmountCleanup

SchedSpec == Init /\ [][SchedNext]_vars

\* the leaderboard collaborator alone: calls with arbitrary arguments, settling in
\* any order
LbNext ==
    \/ \E pseudoLen \in PseudoLens, score \in Scores, uid \in BOOLEAN, storageOk \in BOOLEAN :
          SubmitCall(pseudoLen, score, uid, storageOk)
    \/ \E i \in 1..Len(inFlight), remoteOk \in BOOLEAN, storageOk \in BOOLEAN :
          SubmitSettle(i, remoteOk, storageOk)

LbSpec == Init /\ [][LbNext]_vars

\* the leaderboard collaborator as Canvas calls it, game over after game over, with
\* the stored pseudo and the run's total
RaceNext ==
    \/ \E score \in RaceScores, uid \in BOOLEAN, storageOk \in BOOLEAN :
          SubmitCall(StoredPseudoLen, score, uid, storageOk)
    \/ \E i \in 1..Len(inFlight), remoteOk \in BOOLEAN, storageOk \in BOOLEAN :
          SubmitSettle(i, remoteOk, storageOk)

RaceSpec == Init /\ [][RaceNext]_vars

\* the statistics collaborator alone: results recorded and resets in any order
StatsNext ==
    \/ \E pipe \in PipeArgs, coin \in CoinArgs, diamonds \in DiamondArgs, combo \in ComboArgs,
          storageOk \in BOOLEAN : SaveCall(pipe, coin, diamonds, combo, storageOk)
    \/ \E storageOk \in BOOLEAN : ResetCall(storageOk)

StatsSpec == Init /\ [][StatsNext]_vars

\* a game started by a key press and running since, with the actor at height y
\* falling at velocity v, the obstacles ps and the pickups cs on the playfield,
\* frames display frames still to come, score obstacles passed so far and stored the
\* statistics the earlier games have left
RunningWith(y, v, ps, cs, frames, score, stored) ==
    /\ now = MaxDelta
    /\ rafQueue = {MaxFrames - frames}
    /\ nextFrameId = MaxFrames - frames + 1
    /\ frameIdRef = MaxFrames - frames
    /\ lastTimeRef = MaxDelta
    /\ isRunning = TRUE
    /\ schedEffectPending = FALSE
    /\ mounted = TRUE
    /\ lastDelta = MaxDelta
    /\ ticksSinceStart = 2
    /\ gameState = "PLAYING"
    /\ pipeScore = score
    /\ coinScore = 0
    /\ coinCombo = 0
    /\ highScore = stored.bestTotal
    /\ stats = stored
    /\ pseudo = TRUE
    /\ rendered = Snapshot("PLAYING", score, 0, 0, TRUE)
    /\ updateGameFn = Closure(0, score, 0)
    /\ effectsPending = FALSE
    /\ keyHandler = KeyHandlerOf(rendered)
    /\ callbackRef = OnUpdate(rendered, updateGameFn)
    /\ playerRef = [x |-> PlayerX, y |-> y, velocity |-> v]
    /\ pipesRef = ps
    /\ coinsRef = cs
    /\ diamondsCollectedRef = 0
    /\ maxComboRef = 0
    /\ animTimeRef = 0
    /\ storedStats = stored
    /\ storedPseudo = TRUE
    /\ saveCalls = 0
    /\ submitCalls = 0
    /\ lastSaved = <<>>
    /\ saveLog = <<>>
    /\ showStats = FALSE
    /\ showLeaderboard = FALSE
    /\ showUpdateNote = FALSE
    /\ inFlight = <<>>
    /\ bestSubmitted = 0
    /\ submitReturn = NoReturn
    /\ remoteScore = 0
    /\ soundEnabled = TRUE
    /\ bgMusic = BgStart(Silent, TRUE)
    /\ audioAvailable = TRUE
    /\ crashed = FALSE
    /\ firstEntry = [kind |-> "key",
                     session |-> [player |-> applyFlap(createPlayer(CanvasW, CanvasH)),
                                  pipes |-> <<>>, coins |-> <<>>, pipeScore |-> 0,
                                  coinScore |-> 0, coinCombo |-> 0, maxCombo |-> 0,
                                  diamonds |-> 0]]

\* the same in the first game of a player, before any obstacle is passed
Running(y, v, ps, cs, frames) == RunningWith(y, v, ps, cs, frames, 0, DEFAULT_STATS)

GeoInit ==
    \E y \in ActorYs, v \in ActorVelocities, x \in PipeXs, gapY \in GapYs :
        Running(y, v, <<[x |-> x, gapY |-> gapY, passed |-> FALSE]>>, <<>>, 1)

\* the simulation tick alone, applied to a running game at any geometry
GeoNext ==
    \E id \in rafQueue, gap \in GeoGaps, gapY \in GapYs, spawn \in BOOLEAN, rare \in BOOLEAN,
       storageOk \in BOOLEAN :
       FrameUpdate(id, gap, gapY, spawn, rare, storageOk)

GeoSpec == GeoInit /\ [][GeoNext]_vars

\* a running game with two pickups anywhere around the actor
CoinInit ==
    \E y \in CoinActorYs, x1 \in CoinXs, y1 \in CoinYs, x2 \in CoinXs, y2 \in CoinYs,
       rare1 \in BOOLEAN, rare2 \in BOOLEAN :
        /\ x1 < x2
        /\ Running(y, FlapStrength, <<>>,
                   <<createCoinInGap(x1, y1, rare1), createCoinInGap(x2, y2, rare2)>>, 2)

\* a running game about to hit the ground, with any score, after any earlier game
OverInit ==
    \E score \in RunScores, prev \in PrevTotals :
        RunningWith(GroundY, TerminalVelocity, <<>>, <<>>, 3, score,
                    IF prev = 0 THEN DEFAULT_STATS
                    ELSE saveGameResult(DEFAULT_STATS, prev, 0, 0, 0))

\* the game of a player who has a pseudo
OverNext ==
    \/ \E id \in rafQueue, gap \in Gaps : FrameIdle(id, gap)
    \/ \E id \in rafQueue, gap \in Gaps, gapY \in GapYs, spawn \in BOOLEAN, rare \in BOOLEAN,
          storageOk \in BOOLEAN :
          FrameUpdate(id, gap, gapY, spawn, rare, storageOk)
    \/ KeyDown
    \/ PointerDown
    \/ StartButton
    \/ Render
    \/ FlushEffects

OverSpec == OverInit /\ [][OverNext]_vars

\* a mounted game on its entry screen, or a running game at any geometry
FallInit ==
    \/ Mounted(FALSE, TRUE)
    \/ \E y \in FallYs, v \in FallVelocities, x \in FallPipeXs :
          Running(y, v, <<[x |-> x, gapY |-> 5, passed |-> FALSE]>>, <<>>, FallFrames)

\* every display frame the loop has requested; no pickup is spawned
Frames ==
    \/ \E id \in rafQueue, gap \in GeoGaps : FrameIdle(id, gap)
    \/ \E id \in rafQueue, gap \in GeoGaps, storageOk \in BOOLEAN :
          FrameUpdate(id, gap, 5, FALSE, FALSE, storageOk)

\* the game when no impulse arrives while it is played: frames, renders, effects, and
\* the START button of the menus
FallNext ==
    \/ Frames
    \/ StartButton
    \/ Render
    \/ FlushEffects

\* a requested frame fires, and React commits its renders and runs its effects
FallSpec ==
    /\ FallInit
    /\ [][FallNext]_vars
    /\ WF_vars(Frames)
    /\ WF_vars(Render)
    /\ WF_vars(FlushEffects)

\* its ticks, with the renders and effects they cause
CoinNext ==
    \/ GeoNext
    \/ Render
    \/ FlushEffects

CoinSpec == CoinInit /\ [][CoinNext]_vars

-----------------------------------------------------------------------------
(* Claims *)

\* a display frame fired in this step: loop ran and invoked the registered callback
TickFired == now' # now

\* this step ran the simulation callback
UpdateTick == TickFired /\ callbackRef.kind = "updateGame"

\* C1: within one run (one entry into PLAYING) the statistics record call and the
\* leaderboard submission each happen at most once, under every interleaving of
\* frames, inputs and the deferred render/effect that swaps the callback.
C1_AtMostOncePerRun == saveCalls <= 1 /\ submitCalls <= 1

\* C2: whenever gameOver reports to the statistics collaborator, the four values
\* passed equal the session's pipe-score, pickup-score, rare-pickup count and
\* maximum combo accumulated up to and including the colliding tick.
C2_ReportedEqualsSession ==
    [][saveCalls' = saveCalls + 1 =>
          lastSaved' = <<pipeScore', coinScore', diamondsCollectedRef', maxComboRef'>>]_vars

\* C3: no collaborator failure raises an exception out of the tick callback, and
\* the frame loop keeps a next frame requested.
C3_NoExceptionFromTick == ~crashed /\ rafQueue # {}

\* C4: the game state starts in START and changes only by START -> PLAYING and
\* GAME_OVER -> PLAYING on a start input and by PLAYING -> GAME_OVER in a tick
\* that detected a collision.
C4_Step ==
    gameState' # gameState =>
        \/ /\ gameState \in {"START", "GAME_OVER"}
           /\ gameState' = "PLAYING"
           /\ ~TickFired
           /\ firstEntry' # NoEntry
        \/ /\ gameState = "PLAYING"
           /\ gameState' = "GAME_OVER"
           /\ UpdateTick
           /\ checkCollision(playerRef', pipesRef', CanvasH)

C4_StateMachine == gameState = "START" /\ [][C4_Step]_vars

C4_Witness == gameState = "PLAYING" /\ stats.totalGames >= 1

\* the session state resetGame produces
FreshSession ==
    [player |-> createPlayer(CanvasW, CanvasH), pipes |-> <<>>, coins |-> <<>>,
     pipeScore |-> 0, coinScore |-> 0, coinCombo |-> 0, maxCombo |-> 0, diamonds |-> 0]

EntersPlaying == gameState # "PLAYING" /\ gameState' = "PLAYING"

\* C5 (as claimed): right after every transition into PLAYING the scores, the combo
\* counter, the max-combo tracker and the rare-pickup counter are 0, the obstacle
\* and pickup sets are empty and the actor is a freshly created one.
C5_FreshOnEntry == [][EntersPlaying => Session' = FreshSession]_vars

\* C5 (amended): the same, except that a key press that starts the game from START
\* has already applied the impulse to the fresh actor; the state entered does not
\* depend on the state left, so resetting twice yields the same state.
C5_FreshOnEntryAmended ==
    [][EntersPlaying =>
          Session' = [FreshSession EXCEPT !.player =
                            IF gameState = "START" /\ firstEntry'.kind = "key"
                            THEN applyFlap(createPlayer(CanvasW, CanvasH))
                            ELSE createPlayer(CanvasW, CanvasH)]]_vars

C5_Witness ==
    /\ gameState = "PLAYING"
    /\ Session = FreshSession
    /\ stats.bestCombo >= 1

\* a restart from GAME_OVER by the input kind that started the first game
SameKindRestart ==
    /\ gameState = "GAME_OVER"
    /\ gameState' = "PLAYING"
    /\ \/ firstEntry.kind = "key" /\ KeyDown
       \/ firstEntry.kind = "button" /\ StartButton

\* C6 (as claimed): the session state right after GAME_OVER -> PLAYING is identical
\* to the one right after START -> PLAYING triggered by the same kind of input.
C6_SameEntryState == [][SameKindRestart => Session' = firstEntry.session]_vars

\* C6 (amended): identical except for the actor's velocity when the input is a key
\* press: from START the impulse is applied, from GAME_OVER it is not; for the
\* start button the two states are identical.
C6_SameEntryStateAmended ==
    [][SameKindRestart =>
          /\ [Session' EXCEPT !.player.velocity = 0]
                = [firstEntry.session EXCEPT !.player.velocity = 0]
          /\ Session'.player.velocity = 0
          /\ firstEntry.session.player.velocity =
                IF firstEntry.kind = "key" THEN FlapStrength ELSE 0]_vars

C6_Witness ==
    /\ gameState = "PLAYING"
    /\ stats.totalGames >= 1
    /\ firstEntry.kind = "key"
    /\ playerRef = createPlayer(CanvasW, CanvasH)
    /\ pipesRef = <<>>

\* the pickups collected by the tick that led to this state
Batch(cs) == LET Got(c) == c.collected IN SelectSeq(cs, Got)

\* C7: a tick that collects a batch of k >= 1 pickups of total value v while the
\* combo counter is c sets the combo counter to c + k and adds v * 2 to the
\* pickup-score if c + k >= 3, and v otherwise.
C7_ComboScoring ==
    [][UpdateTick /\ Len(Batch(coinsRef')) >= 1 =>
          LET k == Len(Batch(coinsRef'))
              v == SumValues(Batch(coinsRef'))
          IN  /\ coinCombo' = coinCombo + k
              /\ coinScore' = coinScore + v * (IF coinCombo + k >= 3 THEN 2 ELSE 1)]_vars

\* C8: every elapsed time the scheduler hands to a tick callback lies in [0, 32] ms.
C8_DeltaInRange == lastDelta # -1 => (0 <= lastDelta /\ lastDelta <= MaxDelta)

C8_Witness == lastDelta = MaxDelta /\ ticksSinceStart = 2 /\ now >= 1000

\* C9: the first tick after the scheduler starts or resumes is invoked with
\* elapsed time 0.
C9_FirstTickZero == ticksSinceStart = 1 => lastDelta = 0

C9_Witness == ticksSinceStart = 1 /\ lastDelta = 0 /\ now >= 2000

\* C10: while the should-run flag is false, or after the scheduler is torn down,
\* no frame fires its callback.
C10_NoTickWhileStopped == [][(~isRunning \/ ~mounted) => ~TickFired]_vars

\* C11: at any time at most one frame request is outstanding, and it is the one
\* frameIdRef holds, across every sequence of should-run toggles, so that a display
\* frame invokes one callback and the next tick is requested only when it returned.
C11_OneFrameOutstanding ==
    /\ Cardinality(rafQueue) <= 1
    /\ rafQueue \subseteq {frameIdRef}

C11_Witness ==
    /\ Cardinality(rafQueue) = 1
    /\ isRunning /\ mounted /\ ~schedEffectPending
    /\ ticksSinceStart = 0
    /\ now > 0

\* an input step in which handleFlap applied the impulse
ImpulseStep ==
    \/ KeyDown /\ FlapApplies(keyHandler.gameState, playerRef # Null)
    \/ PointerDown

\* C12: every applied impulse sets the actor's velocity to exactly the flap strength
\* whatever it was, and every tick that runs while the game is PLAYING is a physics
\* integration that starts from the actor as the impulse left it: no tick between
\* the impulse and the next integration overwrites the velocity.
C12_ImpulseKept ==
    [][/\ ImpulseStep => playerRef'.velocity = FlapStrength
       /\ TickFired /\ gameState = "PLAYING" /\ playerRef # Null =>
              /\ callbackRef.kind = "updateGame"
              /\ playerRef' = applyGravity(playerRef, lastDelta')]_vars

C12_Witness ==
    /\ gameState = "PLAYING"
    /\ playerRef # Null
    /\ playerRef.velocity = FlapStrength
    /\ pipesRef # <<>>
    /\ now >= 2 * 32

\* a text-entry or modal overlay is on screen: the name entry, the statistics, the
\* leaderboard or the update note
ModalShown ==
    \/ rendered.gameState # "PLAYING" /\ ~rendered.pseudo
    \/ rendered.gameState # "PLAYING" /\ showStats
    \/ rendered.gameState # "PLAYING" /\ showLeaderboard
    \/ UpdateNoteShown

\* C13: while a text-entry or modal overlay is shown, an impulse input event (key or
\* pointer press) changes neither the game state nor the actor.
C13_ModalBlocksImpulse ==
    [][ModalShown /\ (KeyDown \/ PointerDown) => UNCHANGED <<gameState, playerRef>>]_vars

\* the state of the game a collaborator must not touch
GameSession == <<gameState, playerRef, pipesRef, coinsRef, pipeScore, coinScore, coinCombo,
                 maxComboRef, diamondsCollectedRef>>

\* C14: a leaderboard submission is started only in the tick that enters GAME_OVER
\* handling, only for a run whose combined total is positive and only when a pseudo
\* is stored; and the settling of a submission (accepted, failed remotely, failed
\* locally, during this game or a later one) leaves the game state, the actor, the
\* obstacle and pickup sets and the session scores unchanged.
C14_SubmitFireAndForget ==
    [][/\ submitCalls' = submitCalls + 1 =>
              /\ UpdateTick
              /\ gameState' = "GAME_OVER"
              /\ pipeScore' + coinScore' > 0
              /\ storedPseudo
       /\ (\E i \in 1..Len(inFlight), remoteOk \in BOOLEAN, storageOk \in BOOLEAN :
              SubmitSettle(i, remoteOk, storageOk)) => UNCHANGED GameSession]_vars

C14_Witness ==
    /\ gameState = "PLAYING"
    /\ stats.totalGames >= 1
    /\ submitReturn.kind = "returned"
    /\ submitReturn.value
    /\ bestSubmitted > 0

\* C15: submitScore returns true only if a user id exists, the score is strictly
\* greater than the best-submitted score stored when it was called, the pseudo has
\* 1 to 15 characters and 0 <= score <= 200 (and neither the remote write nor the
\* storage failed); when it returns true the stored best-submitted score equals the
\* score; in every other case it returns false and leaves the stored value unchanged.
C15_SubmitResult ==
    [][submitReturn'.kind = "returned" /\ lbVars' # lbVars =>
          LET r == submitReturn'
          IN  /\ r.value <=> /\ r.uid
                             /\ r.score > r.best
                             /\ 1 <= r.pseudoLen /\ r.pseudoLen <= 15
                             /\ 0 <= r.score /\ r.score <= 200
                             /\ r.failed = "none"
              /\ r.value => bestSubmitted' = r.score
              /\ ~r.value => bestSubmitted' = bestSubmitted]_vars

C15_Witness ==
    /\ submitReturn.kind = "returned"
    /\ submitReturn.value
    /\ submitReturn.best > 0
    /\ submitReturn.score = 200
    /\ bestSubmitted = 200

\* the calls since the last reset all found the storage working
AllStored(log) == \A i \in 1..Len(log) : log[i].ok

RECURSIVE SumSeq(_)
SumSeq(q) == IF q = <<>> THEN 0 ELSE q[1] + SumSeq(Tail(q))

RECURSIVE MaxSeq(_)
MaxSeq(q) == IF q = <<>> THEN 0 ELSE Max(q[1], MaxSeq(Tail(q)))

\* the totals the claim states for a log of calls
TotalsOf(log) ==
    LET pipes    == [i \in 1..Len(log) |-> log[i].pipe]
        coins    == [i \in 1..Len(log) |-> log[i].coin]
        diamonds == [i \in 1..Len(log) |-> log[i].diamonds]
        combos   == [i \in 1..Len(log) |-> log[i].combo]
        totals   == [i \in 1..Len(log) |-> log[i].pipe + log[i].coin]
    IN  [totalGames |-> Len(log),
         totalPipeScore |-> SumSeq(pipes),
         totalCoinScore |-> SumSeq(coins),
         totalDiamonds |-> SumSeq(diamonds),
         bestTotal |-> MaxSeq(totals),
         bestPipes |-> MaxSeq(pipes),
         bestCoins |-> MaxSeq(coins),
         bestCombo |-> MaxSeq(combos)]

\* a statistics record without its achievement flag
Counters(st) ==
    [f \in {"totalGames", "totalPipeScore", "totalCoinScore", "totalDiamonds", "bestTotal",
            "bestPipes", "bestCoins", "bestCombo"} |-> st[f]]

\* C16: after any sequence of saveGameResult calls since the last reset, storage
\* working, the record returned by the last call and the persisted record hold:
\* totalGames = the number of calls, the totals = the sums of the arguments, the
\* best-* fields = their maxima, bestTotal = the maximum of pipe + coin.
C16_TotalsOfCalls ==
    saveLog # <<>> /\ AllStored(saveLog) =>
        /\ Counters(saveLog[Len(saveLog)].returned) = TotalsOf(saveLog)
        /\ Counters(storedStats) = TotalsOf(saveLog)

C16_Witness ==
    /\ Len(saveLog) = 2
    /\ AllStored(saveLog)
    /\ storedStats.totalPipeScore = 22
    /\ storedStats.bestTotal = 20
    /\ storedStats.bestCombo = 2

\* some recorded run of the log reached the achievement threshold
SomeRunReached(log) == \E i \in 1..Len(log) : log[i].pipe + log[i].coin >= 20

\* the saveGameResult calls in this step found the storage working
SavedOk ==
    /\ Len(saveLog') = Len(saveLog) + 1
    /\ saveLog'[Len(saveLog')].kind = "save"
    /\ saveLog'[Len(saveLog')].ok

MaxPipes == (CanvasW + PipeSpacing - 1) \div PipeSpacing + 1

SimTick == UpdateTick /\ playerRef # Null

\* obstacle j after the step is obstacle i before it, scrolled by the tick's elapsed time
SameObstacle(i, j) ==
    /\ pipesRef'[j].x = pipesRef[i].x - PipeSpeed * TimeScale(lastDelta')
    /\ pipesRef'[j].gapY = pipesRef[i].gapY

\* the obstacles that this step marked passed
NewlyPassed ==
    {j \in 1..Len(pipesRef') :
        /\ pipesRef'[j].passed
        /\ ~\E i \in 1..Len(pipesRef) : SameObstacle(i, j) /\ pipesRef[i].passed}

HitboxColumns(p) == (PlayerCx(p) - HitRadius)..(PlayerCx(p) + HitRadius)
HitboxRows(p) == (PlayerCy(p) - HitRadius)..(PlayerCy(p) + HitRadius)

TouchesGround(p, h) == \E j \in HitboxRows(p) : j >= h - GroundHeight
TouchesCeiling(p) == \E j \in HitboxRows(p) : j <= 0

\* the hitbox shares a point with the solid part of obstacle q, above or below its gap
TouchesSolid(p, q) ==
    \E i \in HitboxColumns(p), j \in HitboxRows(p) :
        /\ i \in q.x..(q.x + PipeWidth)
        /\ j <= q.gapY - PipeGap \div 2 \/ j >= q.gapY + PipeGap \div 2

Touches(p, ps, h) ==
    \/ TouchesGround(p, h)
    \/ TouchesCeiling(p)
    \/ \E i \in 1..Len(ps) : TouchesSolid(p, ps[i])

\* the hitbox meets the upper or lower edge of obstacle q's gap without crossing it
TangentToGapEdge(p, q) ==
    /\ \E i \in HitboxColumns(p) : i \in q.x..(q.x + PipeWidth)
    /\ \/ /\ PlayerCy(p) - HitRadius = q.gapY - PipeGap \div 2
          /\ PlayerCy(p) + HitRadius < q.gapY + PipeGap \div 2
       \/ /\ PlayerCy(p) + HitRadius = q.gapY + PipeGap \div 2
          /\ PlayerCy(p) - HitRadius > q.gapY - PipeGap \div 2

\* C20: a simulation tick ends the game (calls gameOver, which records the result)
\* exactly when the actor's hitbox, after the tick's physics, touches or crosses the
\* ground plane, the ceiling plane or the solid part of an obstacle; touching
\* counts, so a hitbox exactly tangent to one of them ends the game.
C20_InclusiveCollision ==
    [][SimTick =>
         (saveCalls' = saveCalls + 1 <=> Touches(playerRef', pipesRef', CanvasH))]_vars

\* the game has ended with the hitbox exactly tangent to a gap edge, clear of the
\* ground and of the ceiling
C20_Witness ==
    /\ saveCalls = 1
    /\ playerRef # Null
    /\ ~TouchesGround(playerRef, CanvasH)
    /\ ~TouchesCeiling(playerRef)
    /\ Len(pipesRef) = 1
    /\ TangentToGapEdge(playerRef, pipesRef[1])

\* the game has ended with the hitbox exactly tangent to the ground plane
TangentToGround ==
    /\ saveCalls = 1
    /\ playerRef # Null
    /\ PlayerCy(playerRef) + HitRadius = CanvasH - GroundHeight
    /\ \A i \in 1..Len(pipesRef) : ~TouchesSolid(playerRef, pipesRef[i])

\* the game has ended with the hitbox exactly tangent to the ceiling plane
TangentToCeiling ==
    /\ saveCalls = 1
    /\ playerRef # Null
    /\ PlayerCy(playerRef) - HitRadius = 0
    /\ \A i \in 1..Len(pipesRef) : ~TouchesSolid(playerRef, pipesRef[i])

\* pickup c lies within the collection radius of the actor's center
Near(p, c) ==
    (c.x - PlayerCx(p)) * (c.x - PlayerCx(p)) + (c.y - PlayerCy(p)) * (c.y - PlayerCy(p))
        <= (HitRadius + CoinRadius) * (HitRadius + CoinRadius)

\* the pickups this tick's batch holds: those the pickup set shows collected
TickBatch == {j \in 1..Len(coinsRef') : coinsRef'[j].collected}

TickBatchValue ==
    SumSeq([j \in 1..Len(coinsRef') |-> IF j \in TickBatch THEN coinsRef'[j].value ELSE 0])

TickBatchRares == {j \in TickBatch : coinsRef'[j].type = "rare"}

\* pickup j after the step is the uncollected pickup i before it, advanced by the tick
SamePickup(i, j) ==
    /\ ~coinsRef[i].collected
    /\ coinsRef'[j].x = coinsRef[i].x - PipeSpeed * TimeScale(lastDelta')
    /\ coinsRef'[j].y = coinsRef[i].y
    /\ coinsRef'[j].type = coinsRef[i].type
    /\ coinsRef'[j].value = coinsRef[i].value

\* pickup j after the step was created by it, in the gap of the obstacle that
\* entered, and advanced with the others
SpawnedPickup(j) ==
    /\ pipesRef' # <<>>
    /\ coinsRef'[j].x = pipesRef'[Len(pipesRef')].x - PipeSpeed * TimeScale(lastDelta')
    /\ coinsRef'[j].y = pipesRef'[Len(pipesRef')].gapY

\* C21: a simulation tick marks collected exactly the pickups within the
\* collection radius of the actor's center; the tick's batch is those pickups,
\* each with its own type and value: the combo grows by their number, the
\* rare-pickup counter by the rare ones among them, the pickup-score by their
\* values times the multiplier. Every pickup after the tick is a pickup that was
\* uncollected before it or one the tick created, so a collected pickup is gone
\* after the next advance and is counted once.
C21_PickupBatch ==
    [][SimTick =>
         /\ \A j \in 1..Len(coinsRef') :
                /\ coinsRef'[j].collected <=> Near(playerRef', coinsRef'[j])
                /\ \/ \E i \in 1..Len(coinsRef) : SamePickup(i, j)
                   \/ SpawnedPickup(j)
         /\ Len(coinsRef') <= Cardinality({i \in 1..Len(coinsRef) : ~coinsRef[i].collected}) + 1
         /\ diamondsCollectedRef' = diamondsCollectedRef + Cardinality(TickBatchRares)
         /\ IF TickBatch = {}
            THEN coinCombo' = coinCombo /\ coinScore' = coinScore
            ELSE /\ coinCombo' = callbackRef.fn.coinCombo + Cardinality(TickBatch)
                 /\ coinScore' = coinScore + TickBatchValue * Multiplier(coinCombo')]_vars

\* two pickups, one of them rare, were collected in one tick
C21_Witness ==
    /\ Len(coinsRef) = 2
    /\ coinsRef[1].collected /\ coinsRef[2].collected
    /\ coinsRef[1].type # coinsRef[2].type
    /\ coinCombo = 2
    /\ diamondsCollectedRef = 1
    /\ coinScore = NormalValue + RareValue

\* a collected pickup has been removed by the advance of the following tick
C21_Removed ==
    /\ coinsRef = <<>>
    /\ coinCombo = 2
    /\ now > 2 * MaxDelta

\* what the physics step and the scoring it drives work on
Simulation ==
    <<pipesRef, coinsRef, pipeScore, coinScore, coinCombo, maxComboRef, diamondsCollectedRef>>

\* C22: a display frame that fires while the game state is GAME_OVER or START
\* runs no physics step: it leaves the obstacle set, the pickup set, the scores,
\* the combo counter, the max-combo tracker and the rare-pickup counter unchanged.
C22_FrozenOutsidePlaying ==
    [][TickFired /\ gameState \in {"GAME_OVER", "START"} => Simulation' = Simulation]_vars

RenderedComboMonotone ==
    [][rendered'.gameState = rendered.gameState =>
          rendered'.coinCombo >= rendered.coinCombo]_vars

\* C24: the max-combo tracker is the running maximum of the combo counter: every
\* step leaves it at the larger of its old value and the counter's new value (so
\* it is never below the counter), or is the reset that zeroes both; and the
\* rare-pickup counter grows in a simulation tick by the number of rare pickups
\* in the tick's batch and otherwise changes only by the reset that zeroes it.
C24_Trackers ==
    [][/\ \/ maxComboRef' = Max(maxComboRef, coinCombo')
          \/ maxComboRef' = 0 /\ coinCombo' = 0
       /\ maxComboRef' >= coinCombo'
       /\ IF SimTick
          THEN diamondsCollectedRef' = diamondsCollectedRef + Cardinality(TickBatchRares)
          ELSE diamondsCollectedRef' = diamondsCollectedRef \/ diamondsCollectedRef' = 0]_vars

\* the combo counter has gone from 2 down to 1, the tracker has kept 2, and one
\* rare pickup has been counted
C24_Witness ==
    /\ maxComboRef = 2
    /\ coinCombo = 1
    /\ diamondsCollectedRef = 1

\* the game-over overlay shows the 'achievement unlocked' banner
BannerShown == justUnlocked20(gameState, pipeScore + coinScore, stats)

\* this step is the first gameOver of the run
FirstGameOver == saveCalls = 0 /\ saveCalls' = 1

\* C25: when a run ends with the banner shown, the result recorded for this run
\* has changed the achievement flag from false to true.
C25_BannerOnlyWhenUnlocked ==
    [][FirstGameOver /\ BannerShown' => ~stats.achievement20 /\ stats'.achievement20]_vars

\* the banner is shown for the game that unlocked the achievement
BannerOnUnlock ==
    /\ BannerShown
    /\ saveCalls = 1
    /\ stats.totalGames = 1
    /\ lastSaved[1] + lastSaved[2] >= AchievementThreshold

\* C26: in GAME_OVER the displayed high score is the bestTotal of the statistics
\* returned for the game over, and it is at least the displayed combined total.
C26_HighScoreCoversTotal ==
    gameState = "GAME_OVER" =>
        /\ highScore = stats.bestTotal
        /\ highScore >= pipeScore + coinScore

\* the first half alone: the displayed high score is the returned bestTotal
HighScoreIsBestTotal == gameState = "GAME_OVER" => highScore = stats.bestTotal

\* C27: no step lowers the stored best-submitted score, and no step replaces the
\* leaderboard document of a pseudo by one with a lower score.
C27_NeverLowered ==
    [][bestSubmitted' >= bestSubmitted /\ remoteScore' >= remoteScore]_vars

\* the relations between the best-* fields and the totals of a statistics record
BestWithinTotals(st) ==
    /\ Max(st.bestPipes, st.bestCoins) <= st.bestTotal
    /\ st.bestTotal <= st.bestPipes + st.bestCoins
    /\ st.bestPipes <= st.totalPipeScore
    /\ st.bestCoins <= st.totalCoinScore

BestFields == {"bestTotal", "bestPipes", "bestCoins", "bestCombo"}

\* this step is a saveGameResult call
SaveTaken ==
    /\ Len(saveLog') = Len(saveLog) + 1
    /\ saveLog'[Len(saveLog')].kind = "save"

C29_MusicOnlyWhilePlaying ==
    /\ bgMusic.timers > 0 => gameState = "PLAYING" /\ soundEnabled
    /\ bgMusic.timers <= 1

\* the second half alone: never more than one beat timer, and none when stopped
OneBeatTimer ==
    /\ bgMusic.timers <= 1
    /\ bgMusic.timers = (IF bgMusic.intervalId THEN 1 ELSE 0)
    /\ ~bgMusic.isPlaying => bgMusic.timers = 0

FallEndsWhileLoopRuns ==
    (gameState = "PLAYING" /\ ~crashed)
        ~> (gameState = "GAME_OVER" \/ nextFrameId > MaxFrames)

\* the START button is shown on the menus only, never over a running game
StartOnlyFromMenu == MenuShown => gameState # "PLAYING"

\* a game that is played with frames to spare and no frame requested
FrozenGame ==
    /\ gameState = "PLAYING"
    /\ rendered.gameState = "PLAYING"
    /\ callbackRef.kind = "updateGame"
    /\ rafQueue = {}
    /\ nextFrameId <= MaxFrames

\* a first game that ended within the frames of the model
FellToGameOver == gameState = "GAME_OVER" /\ saveCalls = 1 /\ ~crashed

=============================================================================
